---- MODULE Spec2Model ----
(***************************************************************************)
(* Model of BuddyMemoryManager (buddy_memory.h): a buddy allocator over    *)
(* one arena.  Pointers are modelled as arena-relative byte offsets        *)
(* (ptr - memory); size_t arithmetic is kept modulo 2^WordBits.            *)
(***************************************************************************)
EXTENDS Integers, Sequences, FiniteSets, TLC

VARIABLES
    totalSize,        \* size of the arena
    minBlockSize,     \* size of the blocks of class 0
    freeLists,        \* class -> sequence of free blocks
    allocatedBlocks,  \* pointer -> recorded size
    running,          \* FALSE once a call has not returned
    lastOp,           \* the last call: its name, argument and return value
    freed,            \* the pointer last released since the last allocate,
                      \* and whether the last call was a further
                      \* deallocate of it (calls = 2)
    live,             \* pointers returned by allocate, not yet deallocated
    nAlloc,           \* calls of Allocate that returned a pointer
    buddyManager,     \* the global buddyManager is not nullptr
    image,            \* the destination Image of the last transformation
    program           \* the main or benchmark program that drives the manager

vars == <<totalSize, minBlockSize, freeLists, allocatedBlocks, running,
          lastOp, freed, live, nAlloc, buddyManager, image,
          program>>

(* ------------------------------ bounds --------------------------------- *)

\* width of size_t in the model (the program's is 64; scaled down)
WordBits == 12

\* the arenas explored are DefaultMinSize * 2^o for o in 1..MaxOrder
MaxOrder == 2

\* allocate is called until MaxAllocs calls have returned a pointer
MaxAllocs == 3

(* ----------------------------- constants ------------------------------- *)

\* default argument minSize of the constructor
DefaultMinSize == 64

\* the null pointer, as an arena-relative address (memory itself is not null)
NullPtr == -1

\* result standing for a loop that never exits
Diverges == -2

(* --------------------------- size_t helpers ---------------------------- *)

RECURSIVE Pow2(_)
Pow2(e) == IF e = 0 THEN 1 ELSE 2 * Pow2(e - 1)

WordMod == Pow2(WordBits)

\* size_t wrap-around
Wrap(x) == x % WordMod

RECURSIVE BitXor(_, _)
BitXor(a, b) ==
    IF a = 0 THEN b
    ELSE IF b = 0 THEN a
    ELSE (((a % 2) + (b % 2)) % 2) + 2 * BitXor(a \div 2, b \div 2)

RECURSIVE BitAnd(_, _)
BitAnd(a, b) ==
    IF a = 0 \/ b = 0 THEN 0
    ELSE ((a % 2) * (b % 2)) + 2 * BitAnd(a \div 2, b \div 2)

Min(a, b) == IF a < b THEN a ELSE b

Max(a, b) == IF a < b THEN b ELSE a

(* ------------------------- SizeClassIndexer ---------------------------- *)

\* the loop of log2Ceil: value <<= 1, result++ while value < n.  Once the
\* shift has pushed the one bit out of the word, value stays 0 < n for ever.
RECURSIVE log2CeilLoop(_, _, _)
log2CeilLoop(value, result, n) ==
    IF ~(value < n) THEN result
    ELSE IF value = 0 THEN Diverges
    ELSE log2CeilLoop(Wrap(value * 2), result + 1, n)

log2Ceil(n) == log2CeilLoop(1, 0, n)

\* the loop of roundUpToNextPowerOf2: result <<= 1 while result < n
RECURSIVE roundUpLoop(_, _)
roundUpLoop(result, n) ==
    IF ~(result < n) THEN result
    ELSE IF result = 0 THEN Diverges
    ELSE roundUpLoop(Wrap(result * 2), n)

\* the rounding to the next power of two strictly above n
roundUpToNextPowerOf2_Above(n) == roundUpLoop(1, n + 1)

roundUpToNextPowerOf2(n) == roundUpLoop(1, n)

\* getSizeClass, for the manager whose minimum block size is minSz
getSizeClass(size, minSz) == Wrap(log2Ceil(size) - log2Ceil(minSz) + WordMod)

(* ------------------------------- blocks -------------------------------- *)

Block(off, sz, f) == [offset |-> off, size |-> sz, free |-> f]

\* freeLists.size()
NumClasses(fl) == Cardinality(DOMAIN fl)

\* vector::erase(begin() + i - 1), 1-based i
\* the erase taking the last entry whatever i is
EraseAt_Last(list, i) == SubSeq(list, 1, Len(list) - 1)

EraseAt(list, i) == SubSeq(list, 1, i - 1) \o SubSeq(list, i + 1, Len(list))

\* the loop "for (it...) if (it->offset == off) { erase(it); break; }":
\* index of the first entry with that offset, 0 if there is none
FirstWithOffset(list, off) ==
    IF \E i \in 1..Len(list) : list[i].offset = off
    THEN CHOOSE i \in 1..Len(list) :
            /\ list[i].offset = off
            /\ \A j \in 1..(i - 1) : list[j].offset # off
    ELSE 0

EraseFirstWithOffset(list, off) ==
    IF FirstWithOffset(list, off) = 0 THEN list
    ELSE EraseAt(list, FirstWithOffset(list, off))

(* ------------------------------ findBlock ------------------------------ *)

\* Result of findBlock: found = FALSE is nullptr; otherwise the returned
\* Block* designates entry idx (1-based) of class cls in the lists fl that
\* findBlock leaves behind.
NoBlock(fl) == [found |-> FALSE, fl |-> fl, cls |-> 0, idx |-> 0]

\* findBlock without the climb to the larger classes
findBlock_NoSplit(fl, sizeClass) ==
    IF sizeClass >= NumClasses(fl) \/ fl[sizeClass] = <<>>
    THEN NoBlock(fl)
    ELSE [found |-> TRUE, fl |-> fl, cls |-> sizeClass, idx |-> 1]

RECURSIVE findBlock(_, _)
findBlock(fl, sizeClass) ==
    IF sizeClass >= NumClasses(fl) \/ fl[sizeClass] = <<>>
    THEN IF sizeClass + 1 >= NumClasses(fl)
         THEN NoBlock(fl)
         ELSE LET r == findBlock(fl, sizeClass + 1) IN
              IF ~r.found
              THEN NoBlock(fl)
              ELSE LET largerBlock == r.fl[sizeClass + 1][r.idx]
                       halfSize    == largerBlock.size \div 2
                       offset      == largerBlock.offset
                       largerList  == EraseFirstWithOffset(r.fl[sizeClass + 1],
                                                           largerBlock.offset)
                       halves      == Append(Append(r.fl[sizeClass],
                                                    Block(offset, halfSize, TRUE)),
                                             Block(offset + halfSize, halfSize, TRUE))
                   IN [found |-> TRUE,
                       fl    |-> [r.fl EXCEPT ![sizeClass + 1] = largerList,
                                              ![sizeClass] = halves],
                       cls   |-> sizeClass,
                       idx   |-> Len(halves) - 1]
    ELSE [found |-> TRUE, fl |-> fl, cls |-> sizeClass, idx |-> 1]

(* ----------------------------- mergeBuddies ---------------------------- *)

\* the test without the comparison of the two offsets
BuddyTest_AnyPartner(b1, b2, blockSize) ==
    /\ b1.free
    /\ b2.free
    /\ BitAnd(b1.offset, blockSize) = 0

\* the test of mergeBuddies on b1 = list[j], b2 = list[k]
BuddyTest(b1, b2, blockSize) ==
    /\ b1.free
    /\ b2.free
    /\ BitXor(b1.offset, b2.offset) = blockSize
    /\ BitAnd(b1.offset, blockSize) = 0

\* the (j, k) pairs of class i that pass the test, j < k
MergeablePairs(fl, i, minSz) ==
    {jk \in (1..Len(fl[i])) \X (1..Len(fl[i])) :
        /\ jk[1] < jk[2]
        /\ BuddyTest(fl[i][jk[1]], fl[i][jk[2]], Wrap(minSz * Pow2(i)))}

\* classes scanned by the outer loop, i < freeLists.size() - 1
MergeClasses(fl, minSz) ==
    {i \in 0..(NumClasses(fl) - 2) : MergeablePairs(fl, i, minSz) # {}}

\* the pair the nested j, k loops reach first
FirstPair(pairs) ==
    CHOOSE jk \in pairs :
        \A o \in pairs : jk[1] < o[1] \/ (jk[1] = o[1] /\ jk[2] <= o[2])

\* mergeBuddies giving the merged block the larger of the two offsets
mergeBuddies_MaxOffset(fl, minSz) ==
    IF MergeClasses(fl, minSz) = {}
    THEN [merged |-> FALSE, fl |-> fl]
    ELSE LET i  == CHOOSE c \in MergeClasses(fl, minSz) :
                       \A d \in MergeClasses(fl, minSz) : c <= d
             jk == FirstPair(MergeablePairs(fl, i, minSz))
             b1 == fl[i][jk[1]]
             b2 == fl[i][jk[2]]
             blockSize    == Wrap(minSz * Pow2(i))
             mergedOffset == Max(b1.offset, b2.offset)
             list == EraseAt(EraseAt(fl[i], jk[2]), jk[1])
         IN [merged |-> TRUE,
             fl |-> [fl EXCEPT ![i] = list,
                               ![i + 1] = Append(fl[i + 1],
                                   Block(mergedOffset, Wrap(blockSize * 2), TRUE))]]

\* mergeBuddies leaving the first block of the pair on its list
mergeBuddies_KeepFirst(fl, minSz) ==
    IF MergeClasses(fl, minSz) = {}
    THEN [merged |-> FALSE, fl |-> fl]
    ELSE LET i  == CHOOSE c \in MergeClasses(fl, minSz) :
                       \A d \in MergeClasses(fl, minSz) : c <= d
             jk == FirstPair(MergeablePairs(fl, i, minSz))
             b1 == fl[i][jk[1]]
             b2 == fl[i][jk[2]]
             blockSize    == Wrap(minSz * Pow2(i))
             mergedOffset == Min(b1.offset, b2.offset)
             list == EraseAt(fl[i], jk[2])
         IN [merged |-> TRUE,
             fl |-> [fl EXCEPT ![i] = list,
                               ![i + 1] = Append(fl[i + 1],
                                   Block(mergedOffset, Wrap(blockSize * 2), TRUE))]]

\* one call of mergeBuddies: merged is its return value
mergeBuddies(fl, minSz) ==
    IF MergeClasses(fl, minSz) = {}
    THEN [merged |-> FALSE, fl |-> fl]
    ELSE LET i  == CHOOSE c \in MergeClasses(fl, minSz) :
                       \A d \in MergeClasses(fl, minSz) : c <= d
             jk == FirstPair(MergeablePairs(fl, i, minSz))
             b1 == fl[i][jk[1]]
             b2 == fl[i][jk[2]]
             blockSize    == Wrap(minSz * Pow2(i))
             mergedOffset == Min(b1.offset, b2.offset)
             list == EraseAt(EraseAt(fl[i], jk[2]), jk[1])
         IN [merged |-> TRUE,
             fl |-> [fl EXCEPT ![i] = list,
                               ![i + 1] = Append(fl[i + 1],
                                   Block(mergedOffset, Wrap(blockSize * 2), TRUE))]]

\* while (mergeBuddies()) {}
RECURSIVE Coalesce(_, _)
Coalesce(fl, minSz) ==
    LET r == mergeBuddies(fl, minSz) IN
    IF r.merged THEN Coalesce(r.fl, minSz) ELSE fl

(* ------------------------------- allocate ------------------------------ *)

\* allocatedBlocks[ptr] = size
MapPut(reg, ptr, size) ==
    [p \in (DOMAIN reg) \cup {ptr} |-> IF p = ptr THEN size ELSE reg[p]]

\* allocatedBlocks.erase(it)
MapErase(reg, ptr) == [p \in (DOMAIN reg) \ {ptr} |-> reg[p]]

\* the rounding with the multiple of minBlockSize taken downwards
allocBlockSize_RoundDown(size, minSz) ==
    LET roundedSize == Wrap((size \div minSz) * minSz)
        blockSize   == roundUpToNextPowerOf2(roundedSize)
    IN IF blockSize = Diverges THEN Diverges ELSE Max(blockSize, minSz)

\* the rounding with size + minBlockSize in place of size + minBlockSize - 1
allocBlockSize_PastMultiple(size, minSz) ==
    LET roundedSize == Wrap((Wrap(size + minSz) \div minSz) * minSz)
        blockSize   == roundUpToNextPowerOf2(roundedSize)
    IN IF blockSize = Diverges THEN Diverges ELSE Max(blockSize, minSz)

\* the rounding at the head of allocate: to a multiple of minBlockSize,
\* then to a power of two, then at least minBlockSize
allocBlockSize(size, minSz) ==
    LET roundedSize == Wrap((Wrap(size + minSz - 1) \div minSz) * minSz)
        blockSize   == roundUpToNextPowerOf2(roundedSize)
    IN IF blockSize = Diverges THEN Diverges ELSE Max(blockSize, minSz)

\* list.erase(it) at position j invalidates a pointer to slot idx when j
\* is at or before idx (j = 0: nothing was erased)
Invalidated(idx, j) == j # 0 /\ j <= idx

\* What block->offset and block->size yield after list.erase(it).  The
\* erase invalidates block (it points at or after the erased position), so
\* the reads are undefined: a build that re-reads memory finds what now
\* sits in the slot (the entry shifted down into it, or the stale bytes of
\* the last slot when nothing follows); a build that has the fields loaded
\* before the erase finds the entry block designated.  list is the vector
\* before the erase, idx the slot of block, j the erased position.
BlockAfterErase(list, idx, j) ==
    IF ~Invalidated(idx, j)
    THEN {list[idx]}
    ELSE {list[idx], list[Min(idx + 1, Len(list))]}

\* allocate without the test for a size of 0
allocate_NoZeroCheck(fl, reg, size, minSz) ==
    LET failed == {[ret |-> NullPtr, fl |-> fl, reg |-> reg]} IN
    IF allocBlockSize(size, minSz) = Diverges
    THEN {[ret |-> Diverges, fl |-> fl, reg |-> reg]}
    ELSE LET sizeClass == getSizeClass(allocBlockSize(size, minSz), minSz) IN
         IF sizeClass >= NumClasses(fl) THEN failed
         ELSE LET r == findBlock(fl, sizeClass) IN
              IF ~r.found THEN failed
              ELSE LET marked == [r.fl[sizeClass] EXCEPT ![r.idx].free = FALSE]
                       j      == FirstWithOffset(marked, marked[r.idx].offset)
                       list   == IF j = 0 THEN marked ELSE EraseAt(marked, j)
                   IN {[ret |-> block.offset,
                        fl  |-> [r.fl EXCEPT ![sizeClass] = list],
                        reg |-> MapPut(reg, block.offset, block.size)] :
                          block \in BlockAfterErase(marked, r.idx, j)}

\* the outcomes of allocate(size): ret is the returned pointer
allocate(fl, reg, size, minSz) ==
    LET failed == {[ret |-> NullPtr, fl |-> fl, reg |-> reg]} IN
    IF size = 0 THEN failed
    ELSE IF allocBlockSize(size, minSz) = Diverges
    THEN {[ret |-> Diverges, fl |-> fl, reg |-> reg]}
    ELSE LET sizeClass == getSizeClass(allocBlockSize(size, minSz), minSz) IN
         IF sizeClass >= NumClasses(fl) THEN failed
         ELSE LET r == findBlock(fl, sizeClass) IN
              IF ~r.found THEN failed
              ELSE LET marked == [r.fl[sizeClass] EXCEPT ![r.idx].free = FALSE]
                       j      == FirstWithOffset(marked, marked[r.idx].offset)
                       list   == IF j = 0 THEN marked ELSE EraseAt(marked, j)
                   IN {[ret |-> block.offset,
                        fl  |-> [r.fl EXCEPT ![sizeClass] = list],
                        reg |-> MapPut(reg, block.offset, block.size)] :
                          block \in BlockAfterErase(marked, r.idx, j)}

(* ------------------------------ deallocate ----------------------------- *)

\* deallocate without the registry lookup: an unknown pointer is put on
\* the free list of class 0
deallocate_NoLookup(fl, reg, ptr, minSz) ==
    IF ptr = NullPtr
    THEN [fl |-> fl, reg |-> reg, crash |-> FALSE]
    ELSE LET size      == IF ptr \in DOMAIN reg THEN reg[ptr] ELSE minSz
             sizeClass == getSizeClass(size, minSz)
         IN IF sizeClass >= NumClasses(fl)
            THEN [fl |-> fl, reg |-> MapErase(reg, ptr), crash |-> TRUE]
            ELSE [fl    |-> Coalesce([fl EXCEPT ![sizeClass] =
                                Append(fl[sizeClass], Block(ptr, size, TRUE))],
                                     minSz),
                  reg   |-> MapErase(reg, ptr),
                  crash |-> FALSE]

\* deallocate leaving the registry entry in place
deallocate_KeepEntry(fl, reg, ptr, minSz) ==
    IF ptr = NullPtr \/ ptr \notin DOMAIN reg
    THEN [fl |-> fl, reg |-> reg, crash |-> FALSE]
    ELSE LET size      == reg[ptr]
             sizeClass == getSizeClass(size, minSz)
         IN IF sizeClass >= NumClasses(fl)
            THEN [fl |-> fl, reg |-> reg, crash |-> TRUE]
            ELSE [fl    |-> Coalesce([fl EXCEPT ![sizeClass] =
                                Append(fl[sizeClass], Block(ptr, size, TRUE))],
                                     minSz),
                  reg   |-> reg,
                  crash |-> FALSE]

\* deallocate(ptr); crash is the out-of-range freeLists[sizeClass]
deallocate(fl, reg, ptr, minSz) ==
    IF ptr = NullPtr \/ ptr \notin DOMAIN reg
    THEN [fl |-> fl, reg |-> reg, crash |-> FALSE]
    ELSE LET size      == reg[ptr]
             offset    == ptr
             sizeClass == getSizeClass(size, minSz)
         IN IF sizeClass >= NumClasses(fl)
            THEN [fl |-> fl, reg |-> MapErase(reg, ptr), crash |-> TRUE]
            ELSE [fl    |-> Coalesce([fl EXCEPT ![sizeClass] =
                                Append(fl[sizeClass], Block(offset, size, TRUE))],
                                     minSz),
                  reg   |-> MapErase(reg, ptr),
                  crash |-> FALSE]

(* ------------------------------- queries ------------------------------- *)

\* isManaged answering for every address inside a registered block
isManaged_Containing(reg, ptr) ==
    \E h \in DOMAIN reg : h <= ptr /\ ptr < h + reg[h]

isManaged(reg, ptr) == ptr \in DOMAIN reg

\* getAllocatedSize answering for the block that contains ptr
getAllocatedSize_Containing(reg, ptr) ==
    IF \E h \in DOMAIN reg : h <= ptr /\ ptr < h + reg[h]
    THEN reg[CHOOSE h \in DOMAIN reg : h <= ptr /\ ptr < h + reg[h]]
    ELSE 0

getAllocatedSize(reg, ptr) == IF ptr \in DOMAIN reg THEN reg[ptr] ELSE 0

(* ------------------------------ the inputs ----------------------------- *)

\* constructor arguments <<size, minSize>>
Configs == {<<DefaultMinSize * Pow2(o), DefaultMinSize>> : o \in 1..MaxOrder}

\* request sizes: 0, 1, each block size of the arena and the byte after
\* it (the last one is too large), a size above 2^(WordBits-1), and a
\* size that wraps size + minBlockSize - 1
ReqSizes ==
    {0, 1, 100, WordMod \div 2 + 1, WordMod - 1}
      \cup {minBlockSize * Pow2(k) + d :
               k \in 0..(NumClasses(freeLists) - 1), d \in {0, 1}}

\* pointers handed to deallocate and the queries: null, the arena base,
\* the address past the arena, every live handle, an interior address of
\* each live block, and the pointer released last
Pointers ==
    {NullPtr, 0, totalSize, freed.ptr}
      \cup DOMAIN allocatedBlocks
      \cup {h + 1 : h \in DOMAIN allocatedBlocks}

(* ------------------------------ the machine ---------------------------- *)

Op(name, arg, ret) == [op |-> name, arg |-> arg, ret |-> ret]

BoolRet(b) == IF b THEN 1 ELSE 0

NoneFreed == [ptr |-> NullPtr, calls |-> 0]

\* freed after a call that is neither an allocate nor a deallocate of freed.ptr
Kept(f) == [f EXCEPT !.calls = Min(f.calls, 1)]

\* an Image that holds no destination buffer: source tells where the
\* buffer came from, nullStore whether bytes were stored through nullptr
NoImage == [source |-> "none", nullStore |-> FALSE]

\* no program is running: the manager is driven call by call
NoProgram ==
    [name |-> "none", pc |-> "none", useBuddy |-> FALSE, iter |-> 0,
     managers |-> 0, stale |-> FALSE, imgData |-> FALSE,
     deallocs |-> 0, frees |-> 0]

\* BuddyMemoryManager(size, minSize)
Construct(size, minSize) ==
    /\ totalSize = roundUpToNextPowerOf2(size)
    /\ minBlockSize = roundUpToNextPowerOf2(minSize)
    /\ LET numClasses == log2Ceil(totalSize \div minBlockSize) + 1 IN
       freeLists = [k \in 0..(numClasses - 1) |->
                      IF k = numClasses - 1
                      THEN <<Block(0, totalSize, TRUE)>> ELSE <<>>]
    /\ allocatedBlocks = [p \in {} |-> 0]
    /\ running = TRUE
    /\ lastOp = Op("new", size, minSize)
    /\ freed = NoneFreed
    /\ live = {}
    /\ nAlloc = 0
    /\ buddyManager = TRUE
    /\ image = NoImage
    /\ program = NoProgram

Init == \E cfg \in Configs : Construct(cfg[1], cfg[2])

\* one call allocate(size)
AllocateCall(size) ==
    /\ \E out \in allocate(freeLists, allocatedBlocks, size, minBlockSize) :
          /\ freeLists' = out.fl
          /\ allocatedBlocks' = out.reg
          /\ lastOp' = Op("allocate", size, out.ret)
          /\ running' = (out.ret # Diverges)
          /\ live' = IF out.ret \in {NullPtr, Diverges} THEN live
                     ELSE live \cup {out.ret}
          /\ nAlloc' = IF out.ret \in {NullPtr, Diverges} THEN nAlloc
                       ELSE nAlloc + 1
    /\ freed' = NoneFreed
    /\ UNCHANGED <<totalSize, minBlockSize, buddyManager, image, program>>

Allocate ==
    /\ running
    /\ nAlloc < MaxAllocs
    /\ \E size \in ReqSizes : AllocateCall(size)

\* one call deallocate(ptr)
DeallocateCall(ptr) ==
    /\ LET out == deallocate(freeLists, allocatedBlocks, ptr, minBlockSize) IN
          /\ freeLists' = out.fl
          /\ allocatedBlocks' = out.reg
          /\ lastOp' = Op("deallocate", ptr, 0)
          /\ running' = ~out.crash
          /\ freed' = IF out.reg # allocatedBlocks THEN [ptr |-> ptr, calls |-> 1]
                      ELSE IF freed.ptr = ptr /\ freed.calls > 0
                           THEN [ptr |-> ptr, calls |-> 2]
                      ELSE Kept(freed)
          /\ live' = live \ {ptr}
    /\ UNCHANGED <<totalSize, minBlockSize, nAlloc, buddyManager, image, program>>

Deallocate ==
    /\ running
    /\ \E ptr \in Pointers : DeallocateCall(ptr)

IsManaged ==
    /\ running
    /\ \E ptr \in Pointers :
         lastOp' = Op("isManaged", ptr, BoolRet(isManaged(allocatedBlocks, ptr)))
    /\ freed' = Kept(freed)
    /\ UNCHANGED <<totalSize, minBlockSize, freeLists, allocatedBlocks,
                   running, live, nAlloc, buddyManager, image, program>>

GetAllocatedSize ==
    /\ running
    /\ \E ptr \in Pointers :
         lastOp' = Op("getAllocatedSize", ptr, getAllocatedSize(allocatedBlocks, ptr))
    /\ freed' = Kept(freed)
    /\ UNCHANGED <<totalSize, minBlockSize, freeLists, allocatedBlocks,
                   running, live, nAlloc, buddyManager, image, program>>

Next == Allocate \/ Deallocate \/ IsManaged \/ GetAllocatedSize

Spec == Init /\ [][Next]_vars

(* ------------------- the constructor on any arguments ------------------ *)

\* constructor arguments <<size, minSize>>: a capacity of 0, a minimum of
\* 0, a minimum above the capacity, sizes that are not powers of two, a
\* single-class arena and a regular one
CtorArgs ==
    {<<0, DefaultMinSize>>, <<2, 0>>, <<0, 0>>, <<32, DefaultMinSize>>,
     <<100, 50>>, <<3, 2>>, <<DefaultMinSize, DefaultMinSize>>,
     <<2 * DefaultMinSize, DefaultMinSize>>}

InitCtor == \E cfg \in CtorArgs : Construct(cfg[1], cfg[2])

SpecCtor == InitCtor /\ [][Next]_vars

(* ------------------- the 1024-byte arena of the examples --------------- *)

\* BuddyMemoryManager(1024, 64)
ExampleConfig == <<16 * DefaultMinSize, DefaultMinSize>>

\* the request sizes of the examples
ExampleSizes == {100, 256, 900}

InitExample == Construct(ExampleConfig[1], ExampleConfig[2])

\* an example makes one call more than MaxAllocs successful ones
AllocateExample ==
    /\ running
    /\ nAlloc <= MaxAllocs
    /\ \E size \in ExampleSizes : AllocateCall(size)

DeallocateExample ==
    /\ running
    /\ \E ptr \in DOMAIN allocatedBlocks : DeallocateCall(ptr)

NextExample == AllocateExample \/ DeallocateExample

SpecExample == InitExample /\ [][NextExample]_vars

(* ------------------- the Image caller of the manager ------------------- *)

\* a buffer obtained from new unsigned char[n]
HeapPtr == -3

\* estimatedSize = width * height * channels * 4 of the images loaded
EstimatedSizes == {cfg[1] : cfg \in Configs}

\* before any image is loaded: buddyManager = nullptr
InitCaller ==
    /\ totalSize = 0
    /\ minBlockSize = 0
    /\ freeLists = [k \in {} |-> <<>>]
    /\ allocatedBlocks = [p \in {} |-> 0]
    /\ running = TRUE
    /\ lastOp = Op("main", 0, 0)
    /\ freed = NoneFreed
    /\ live = {}
    /\ nAlloc = 0
    /\ buddyManager = FALSE
    /\ image = NoImage
    /\ program = NoProgram

\* Image::image(path): a successful load creates the manager when there
\* is none
LoadImage ==
    /\ running
    /\ \E loaded \in BOOLEAN, estimatedSize \in EstimatedSizes :
         /\ lastOp' = Op("image", estimatedSize, BoolRet(loaded))
         /\ IF loaded /\ ~buddyManager
            THEN LET total      == roundUpToNextPowerOf2(estimatedSize)
                     minSz      == roundUpToNextPowerOf2(DefaultMinSize)
                     numClasses == log2Ceil(total \div minSz) + 1
                 IN /\ totalSize' = total
                    /\ minBlockSize' = minSz
                    /\ freeLists' = [k \in 0..(numClasses - 1) |->
                                       IF k = numClasses - 1
                                       THEN <<Block(0, total, TRUE)>> ELSE <<>>]
                    /\ allocatedBlocks' = [p \in {} |-> 0]
                    /\ buddyManager' = TRUE
            ELSE UNCHANGED <<totalSize, minBlockSize, freeLists,
                             allocatedBlocks, buddyManager>>
    /\ freed' = NoneFreed
    /\ UNCHANGED <<running, live, nAlloc, image, program>>

\* Image::rotateImage with a destination of n bytes (scaleImage and
\* transformImage obtain, fill and release their destination with the
\* same statements): allocate or new[], memset and the pixel stores,
\* then isManaged and deallocate.  A store through nullptr ends the
\* process.
RotateImage ==
    /\ running
    /\ \E useBuddySystem \in BOOLEAN, n \in ReqSizes :
         IF useBuddySystem /\ buddyManager
         THEN \E a \in allocate(freeLists, allocatedBlocks, n, minBlockSize) :
                LET served == a.ret \notin {NullPtr, Diverges}
                    d      == deallocate(a.fl, a.reg, a.ret, minBlockSize)
                IN /\ lastOp' = Op("rotateImage", n, a.ret)
                   /\ image' = [source    |-> IF served THEN "buddy" ELSE "none",
                                nullStore |-> a.ret = NullPtr /\ n > 0]
                   /\ freeLists' = IF served THEN d.fl ELSE a.fl
                   /\ allocatedBlocks' = IF served THEN d.reg ELSE a.reg
                   /\ running' = IF served THEN ~d.crash
                                 ELSE a.ret = NullPtr /\ n = 0
                   /\ live' = live \ {a.ret}
         ELSE /\ lastOp' = Op("rotateImage", n, HeapPtr)
              /\ image' = [source |-> "heap", nullStore |-> FALSE]
              /\ UNCHANGED <<freeLists, allocatedBlocks, running, live>>
    /\ freed' = NoneFreed
    /\ UNCHANGED <<totalSize, minBlockSize, nAlloc, buddyManager, program>>

\* main: delete buddyManager; buddyManager = nullptr
DeleteManager ==
    /\ running
    /\ buddyManager
    /\ buddyManager' = FALSE
    /\ lastOp' = Op("delete", 0, 0)
    /\ freed' = NoneFreed
    /\ UNCHANGED <<totalSize, minBlockSize, freeLists, allocatedBlocks,
                   running, live, nAlloc, image, program>>

NextCaller == LoadImage \/ RotateImage \/ DeleteManager

SpecCaller == InitCaller /\ [][NextCaller]_vars

(* --------------------- the main and benchmark programs ----------------- *)

\* passes of the benchmark loop: four parameter pairs, each run without
\* and with the buddy system
BenchRuns == 8

\* new BuddyMemoryManager(size): the fields of the constructed object
NewManager(size) ==
    LET total      == roundUpToNextPowerOf2(size)
        minSz      == roundUpToNextPowerOf2(DefaultMinSize)
        numClasses == log2Ceil(total \div minSz) + 1
    IN [total |-> total, minSz |-> minSz,
        fl    |-> [k \in 0..(numClasses - 1) |->
                     IF k = numClasses - 1
                     THEN <<Block(0, total, TRUE)>> ELSE <<>>],
        reg   |-> [p \in {} |-> 0]]

\* the manager the global pointer designates
CurrentManager ==
    [total |-> totalSize, minSz |-> minBlockSize,
     fl |-> freeLists, reg |-> allocatedBlocks]

\* byte counts newWidth * newHeight * channels of a destination, chosen
\* against the manager m as ReqSizes is against the current one
DestinationSizes(m) ==
    {0, 1, 100, WordMod \div 2 + 1, WordMod - 1}
      \cup {m.minSz * Pow2(k) + d :
               k \in 0..(NumClasses(m.fl) - 1), d \in {0, 1}}

\* Image::~Image on an Image whose data is not null: "deallocate" when
\* the three-part condition holds, "free" (stbi_image_free) otherwise
Destructor(useBuddySystem, mgr, reg, data) ==
    IF useBuddySystem /\ mgr /\ isManaged(reg, data)
    THEN "deallocate" ELSE "free"

\* transformedImage.data after the release at the end of transformImage
\* the release leaving the data pointer as it is
DataAfterRelease_Kept(release, ptr) == ptr

DataAfterRelease(release, ptr) == IF release THEN NullPtr ELSE ptr

\* main starts with Image img and the parsed flags; the benchmark starts
\* at the head of its loop
InitProgram ==
    /\ totalSize = 0
    /\ minBlockSize = 0
    /\ freeLists = [k \in {} |-> <<>>]
    /\ allocatedBlocks = [p \in {} |-> 0]
    /\ running = TRUE
    /\ lastOp = Op("main", 0, 0)
    /\ freed = NoneFreed
    /\ live = {}
    /\ nAlloc = 0
    /\ buddyManager = FALSE
    /\ image = NoImage
    /\ \E name \in {"main", "benchmark"}, buddySystem \in BOOLEAN :
         program = [NoProgram EXCEPT
                      !.name = name,
                      !.pc = IF name = "main" THEN "transform" ELSE "reset",
                      !.useBuddy = name = "main" /\ buddySystem]

\* img.transformImage(inputPath, outputPath, angle, scaleFactor, useBuddy):
\* image(inputPath) loads the file and creates the manager when there is
\* none; with a positive scale factor the destination of n bytes is taken
\* from the manager or from new[], filled, saved and released, and the
\* destructor of transformedImage runs at the return; scopeEnds tells that
\* the caller's img goes out of scope right after the call.  A store
\* through nullptr kills the process, an allocate that does not return
\* hangs it.
TransformImage(useBuddy, next, iter, scopeEnds) ==
    \E loaded, positiveScale \in BOOLEAN, estimatedSize \in EstimatedSizes :
     \E n \in IF loaded \/ program.imgData
              THEN DestinationSizes(IF loaded /\ ~buddyManager
                                    THEN NewManager(estimatedSize)
                                    ELSE CurrentManager)
              ELSE {0} :
       LET create   == loaded /\ ~buddyManager
           m        == IF create THEN NewManager(estimatedSize)
                       ELSE CurrentManager
           mgr      == buddyManager \/ create
           managers == program.managers + (IF create THEN 1 ELSE 0)
           \* the destructor of img calls isManaged on a deleted manager
           imgStale == scopeEnds /\ loaded /\ useBuddy /\ mgr /\ managers = 0
           entered  == [program EXCEPT !.managers = managers,
                                       !.imgData = loaded,
                                       !.iter = iter,
                                       !.deallocs = 0, !.frees = 0]
       IN /\ totalSize' = m.total
          /\ minBlockSize' = m.minSz
          /\ buddyManager' = mgr
          /\ freed' = NoneFreed
          /\ UNCHANGED <<live, nAlloc>>
          /\ IF ~positiveScale
             THEN /\ lastOp' = Op("transformImage", 0, NullPtr)
                  /\ image' = NoImage
                  /\ freeLists' = m.fl
                  /\ allocatedBlocks' = m.reg
                  /\ running' = TRUE
                  /\ program' = [entered EXCEPT
                                   !.pc = next,
                                   !.stale = program.stale \/ imgStale]
             ELSE IF useBuddy /\ mgr
             THEN \E a \in allocate(m.fl, m.reg, n, m.minSz) :
                    LET served   == a.ret \notin {NullPtr, Diverges}
                        nullStore == a.ret = NullPtr /\ n > 0
                        release  == served /\ isManaged(a.reg, a.ret)
                        stale    == managers = 0
                        d        == deallocate(a.fl, a.reg, a.ret, m.minSz)
                        \* transformedImage.data when the destructor runs
                        data     == DataAfterRelease(release, a.ret)
                        destroy  == IF data = NullPtr THEN "none"
                                    ELSE Destructor(useBuddy, mgr,
                                                    IF release THEN d.reg
                                                    ELSE a.reg,
                                                    data)
                    IN /\ lastOp' = Op("transformImage", n, a.ret)
                       /\ image' = [source    |-> IF served THEN "buddy"
                                                  ELSE "none",
                                    nullStore |-> nullStore]
                       /\ freeLists' = IF release THEN d.fl ELSE a.fl
                       /\ allocatedBlocks' = IF release THEN d.reg ELSE a.reg
                       /\ \E ends \in IF a.ret = Diverges THEN {"hung"}
                                      ELSE IF nullStore THEN {"crashed"}
                                      ELSE IF release /\ d.crash
                                      THEN {"crashed", next}
                                      ELSE {next} :
                            /\ running' = (ends = next)
                            /\ program' =
                                 [entered EXCEPT
                                    !.pc = ends,
                                    !.stale = \/ program.stale
                                              \/ served /\ stale
                                              \/ ends = next /\ imgStale,
                                    !.deallocs =
                                       IF ~served \/ nullStore THEN 0
                                       ELSE (IF release THEN 1 ELSE 0)
                                            + (IF destroy = "deallocate"
                                               THEN 1 ELSE 0),
                                    !.frees = IF served /\ destroy = "free"
                                              THEN 1 ELSE 0]
             ELSE /\ lastOp' = Op("transformImage", n, HeapPtr)
                  /\ image' = [source |-> "heap", nullStore |-> FALSE]
                  /\ freeLists' = m.fl
                  /\ allocatedBlocks' = m.reg
                  /\ running' = TRUE
                  /\ program' = [entered EXCEPT
                                   !.pc = next,
                                   !.stale = program.stale \/ imgStale,
                                   !.frees = 1]

\* if (buddyManager != nullptr) { delete buddyManager;
\*                                buddyManager = nullptr; }
ResetManager(next) ==
    /\ buddyManager' = FALSE
    /\ program' = [program EXCEPT
                     !.pc = next,
                     !.managers = IF buddyManager THEN @ - 1 ELSE @]
    /\ lastOp' = Op("delete", 0, BoolRet(buddyManager))
    /\ freed' = NoneFreed
    /\ UNCHANGED <<totalSize, minBlockSize, freeLists, allocatedBlocks,
                   running, live, nAlloc, image>>

\* the destructor of the source Image img: its data came from stbi_load
DestroyImg ==
    IF program.imgData /\ program.useBuddy /\ buddyManager
    THEN program.stale \/ program.managers = 0
    ELSE program.stale

\* main: img.transformImage(..., buddySystem, true)
MainTransform ==
    /\ running
    /\ program.name = "main" /\ program.pc = "transform"
    /\ TransformImage(program.useBuddy, "delete", 0, FALSE)

\* main: the delete after the transformation
MainDelete ==
    /\ running
    /\ program.name = "main" /\ program.pc = "delete"
    /\ ResetManager("benchmark")

\* main: std::system("./Benchmark ..."), return, and the destructor of img
MainExit ==
    /\ running
    /\ program.name = "main" /\ program.pc = "benchmark"
    /\ program' = [program EXCEPT !.pc = "exited", !.stale = DestroyImg,
                                  !.imgData = FALSE]
    /\ lastOp' = Op("return", 0, 0)
    /\ freed' = NoneFreed
    /\ UNCHANGED <<totalSize, minBlockSize, freeLists, allocatedBlocks,
                   running, live, nAlloc, buddyManager, image>>

\* runBenchmarks: the reset at the head of a pass
BenchReset ==
    /\ running
    /\ program.name = "benchmark" /\ program.pc = "reset"
    /\ ResetManager("load")

\* runBenchmarks: Image img; img.image(inputPath), and the selection of
\* useBuddy for the pass
BenchLoad ==
    /\ running
    /\ program.name = "benchmark" /\ program.pc = "load"
    /\ \E loaded \in BOOLEAN, estimatedSize \in EstimatedSizes :
         LET create == loaded /\ ~buddyManager
             m      == IF create THEN NewManager(estimatedSize)
                       ELSE CurrentManager
         IN /\ totalSize' = m.total
            /\ minBlockSize' = m.minSz
            /\ freeLists' = m.fl
            /\ allocatedBlocks' = m.reg
            /\ buddyManager' = (buddyManager \/ create)
            /\ lastOp' = Op("image", estimatedSize, BoolRet(loaded))
            /\ program' = [program EXCEPT
                             !.pc = "create",
                             !.useBuddy = program.iter % 2 = 1,
                             !.imgData = loaded,
                             !.managers = IF create THEN @ + 1 ELSE @]
    /\ freed' = NoneFreed
    /\ UNCHANGED <<running, live, nAlloc, image>>

\* runBenchmarks: if (useBuddy && buddyManager == nullptr) the manager is
\* created from the dimensions of img, which are 0 when the load failed
BenchCreate ==
    /\ running
    /\ program.name = "benchmark" /\ program.pc = "create"
    /\ LET create == program.useBuddy /\ ~buddyManager
           m      == IF create THEN NewManager(0) ELSE CurrentManager
       IN /\ totalSize' = m.total
          /\ minBlockSize' = m.minSz
          /\ freeLists' = m.fl
          /\ allocatedBlocks' = m.reg
          /\ buddyManager' = (buddyManager \/ create)
          /\ lastOp' = Op("new", 0, BoolRet(create))
          /\ program' = [program EXCEPT
                           !.pc = "transform",
                           !.managers = IF create THEN @ + 1 ELSE @]
    /\ freed' = NoneFreed
    /\ UNCHANGED <<running, live, nAlloc, image>>

\* runBenchmarks: img.transformImage(..., useBuddy), the end of the pass
\* with the destructor of img, and the next pass or the return
BenchTransform ==
    /\ running
    /\ program.name = "benchmark" /\ program.pc = "transform"
    /\ TransformImage(program.useBuddy,
                      IF program.iter + 1 < BenchRuns THEN "reset"
                      ELSE "cleanup",
                      program.iter + 1, TRUE)

\* benchmark main: the clean-up after the table is printed, and return 0
BenchCleanup ==
    /\ running
    /\ program.name = "benchmark" /\ program.pc = "cleanup"
    /\ ResetManager("exited")

NextProgram ==
    \/ MainTransform
    \/ MainDelete
    \/ MainExit
    \/ BenchReset
    \/ BenchLoad
    \/ BenchCreate
    \/ BenchTransform
    \/ BenchCleanup

SpecProgram == InitProgram /\ [][NextProgram]_vars

(* ============================== properties ============================= *)

Classes == DOMAIN freeLists

Handles == DOMAIN allocatedBlocks

\* positions <<class, index>> of the free-list entries
FreeEntries == UNION {{<<c, i>> : i \in 1..Len(freeLists[c])} : c \in Classes}

FreeBlockAt(ci) == freeLists[ci[1]][ci[2]]

RECURSIVE SumSeqSizes(_)
SumSeqSizes(list) ==
    IF list = <<>> THEN 0 ELSE Head(list).size + SumSeqSizes(Tail(list))

RECURSIVE SumFree(_)
SumFree(cs) ==
    IF cs = {} THEN 0
    ELSE LET c == CHOOSE x \in cs : TRUE
         IN SumSeqSizes(freeLists[c]) + SumFree(cs \ {c})

RECURSIVE SumAllocated(_)
SumAllocated(ps) ==
    IF ps = {} THEN 0
    ELSE LET p == CHOOSE x \in ps : TRUE
         IN allocatedBlocks[p] + SumAllocated(ps \ {p})

\* the last call was an allocate that returned a pointer
AllocSucceeded == lastOp.op = "allocate" /\ lastOp.ret \notin {NullPtr, Diverges}

\* the free lists as the constructor leaves them
OnlyRootFree ==
    \A c \in Classes :
        freeLists[c] = IF c = NumClasses(freeLists) - 1
                       THEN <<Block(0, totalSize, TRUE)>> ELSE <<>>

\* the byte ranges of the registry entries are pairwise disjoint
LiveRangesDisjoint ==
    \A p, q \in Handles :
        p # q => (p + allocatedBlocks[p] <= q \/ q + allocatedBlocks[q] <= p)

\* the step is an allocate call that returns a pointer
AllocateSucceeds == nAlloc' = nAlloc + 1

\* C1: no two live allocations overlap: the byte ranges
\* [offset, offset + size) of any two registry entries are disjoint, and
\* allocate never returns a handle that is still live.
C1_Disjointness ==
    /\ []LiveRangesDisjoint
    /\ [][AllocateSucceeds => lastOp'.ret \notin live]_vars

\* the number of free-list entries and registry entries that hold byte x
CoverCount(x) ==
    Cardinality({ci \in FreeEntries :
                    /\ FreeBlockAt(ci).offset <= x
                    /\ x < FreeBlockAt(ci).offset + FreeBlockAt(ci).size})
      + Cardinality({p \in Handles : p <= x /\ x < p + allocatedBlocks[p]})

\* C2: after every call each byte of [0, totalSize) lies in exactly one
\* block, free or allocated: no overlap and no lost range.
C2_Partition == \A x \in 0..(totalSize - 1) : CoverCount(x) = 1

\* C3: after every operation the sizes of the free blocks and of the
\* registry entries add up to totalSize.
C3_Conservation == SumFree(Classes) + SumAllocated(Handles) = totalSize

\* C4: once every handle that allocate returned has been deallocated, the
\* free lists hold exactly the root block {0, totalSize} in the top class.
C4_FullCoalescing == (nAlloc > 0 /\ live = {}) => OnlyRootFree

\* the buddy relation of the specification on two blocks of size s
AreBuddies(b1, b2, s) ==
    /\ BitXor(b1.offset, b2.offset) = s
    /\ Min(b1.offset, b2.offset) % (2 * s) = 0

IsPowerOfTwo(n) == \E e \in 0..WordBits : n = Pow2(e)

\* C6: when allocate(s) succeeds for s in [1, capacity], the size recorded
\* for the returned handle is a power of two, a multiple of minBlockSize
\* and at least s.
C6_SizeRounding ==
    (AllocSucceeded /\ lastOp.arg \in 1..totalSize) =>
        LET sz == getAllocatedSize(allocatedBlocks, lastOp.ret) IN
            /\ IsPowerOfTwo(sz)
            /\ sz % minBlockSize = 0
            /\ sz >= lastOp.arg

C6_Witness ==
    /\ AllocSucceeded
    /\ lastOp.arg = 100
    /\ getAllocatedSize(allocatedBlocks, lastOp.ret) = 128

\* C7: the registry holds exactly the handles that allocate returned and
\* that were not deallocated since, and every successful allocate adds a
\* key of its own: the number of entries is the number of successful
\* allocates minus the number of successful deallocates.
C7_RegistryExact ==
    /\ [](Handles = live)
    /\ [][AllocateSucceeds =>
            /\ lastOp'.ret \notin Handles
            /\ Cardinality(DOMAIN allocatedBlocks') = Cardinality(Handles) + 1]_vars
    /\ [][(lastOp'.op = "deallocate" /\ lastOp'.arg \in Handles) =>
            Cardinality(DOMAIN allocatedBlocks') = Cardinality(Handles) - 1]_vars

\* C8: a deallocate of a pointer that an earlier deallocate released, with
\* no allocate in between, changes no free list and no registry entry (so
\* whatever held of them after the first call holds after the second).
C8_DoubleFreeNoOp ==
    [][freed'.calls = 2 =>
         /\ freeLists' = freeLists
         /\ allocatedBlocks' = allocatedBlocks
         /\ running']_vars

C8_Witness ==
    /\ freed.calls = 2
    /\ lastOp = Op("deallocate", freed.ptr, 0)
    /\ freed.ptr \notin Handles

\* C9: for a pointer that is not a registry key, isManaged returns false,
\* getAllocatedSize returns 0 and deallocate changes no free list and no
\* registry entry.
C9_UnknownHandle ==
    [][lastOp'.arg \notin Handles =>
         /\ lastOp'.op = "isManaged" => lastOp'.ret = BoolRet(FALSE)
         /\ lastOp'.op = "getAllocatedSize" => lastOp'.ret = 0
         /\ lastOp'.op = "deallocate" =>
               /\ freeLists' = freeLists
               /\ allocatedBlocks' = allocatedBlocks]_vars

C9_Witness ==
    /\ lastOp.op = "deallocate"
    /\ \E h \in Handles : lastOp.arg = h + 1
    /\ \E c \in Classes : freeLists[c] # <<>>

\* C10: an allocate whose size maps to a class k < numClasses returns null
\* exactly when the free lists of classes k .. numClasses-1 are all empty,
\* and then it has changed no free list and no registry entry.
C10_OutOfMemory ==
    [][(/\ lastOp'.op = "allocate"
        /\ lastOp'.arg # 0
        /\ allocBlockSize(lastOp'.arg, minBlockSize) # Diverges
        /\ getSizeClass(allocBlockSize(lastOp'.arg, minBlockSize), minBlockSize)
             < NumClasses(freeLists))
       =>
       LET k == getSizeClass(allocBlockSize(lastOp'.arg, minBlockSize), minBlockSize)
       IN /\ (lastOp'.ret = NullPtr) <=>
                (\A c \in k..(NumClasses(freeLists) - 1) : freeLists[c] = <<>>)
          /\ (lastOp'.ret = NullPtr) =>
                (freeLists' = freeLists /\ allocatedBlocks' = allocatedBlocks)]_vars

C10_Witness ==
    /\ lastOp.op = "allocate"
    /\ lastOp.ret = NullPtr
    /\ lastOp.arg = 2 * minBlockSize
    /\ freeLists[0] # <<>>
    /\ \A c \in 1..(NumClasses(freeLists) - 1) : freeLists[c] = <<>>

\* the request size rounded up to a multiple of minSz and then to a power
\* of two, as numbers (no word width)
RoundedRequest(size, minSz) ==
    LET multiple == ((size + minSz - 1) \div minSz) * minSz IN
    CHOOSE p \in {Pow2(e) : e \in 0..WordBits} :
        /\ p >= multiple
        /\ \A q \in {Pow2(e) : e \in 0..WordBits} : q >= multiple => p <= q

\* C11: an allocate whose size, rounded up to a multiple of minBlockSize
\* and then to a power of two, exceeds totalSize returns null and changes
\* no free list and no registry entry.
C11_RequestTooLarge ==
    [][(/\ lastOp'.op = "allocate"
        /\ RoundedRequest(lastOp'.arg, minBlockSize) > totalSize)
       =>
       /\ lastOp'.ret = NullPtr
       /\ freeLists' = freeLists
       /\ allocatedBlocks' = allocatedBlocks]_vars

\* C12: allocate(0) returns null in every state and changes no free list
\* and no registry entry.
C12_ZeroSize ==
    [][(lastOp'.op = "allocate" /\ lastOp'.arg = 0) =>
         /\ lastOp'.ret = NullPtr
         /\ freeLists' = freeLists
         /\ allocatedBlocks' = allocatedBlocks
         /\ running']_vars

C12_Witness ==
    /\ lastOp = Op("allocate", 0, NullPtr)
    /\ Handles # {}
    /\ \E c \in Classes : freeLists[c] # <<>>

\* C13: the first successful allocate on a freshly constructed manager
\* returns arena offset 0; on the 1024/64 manager allocate(100) returns a
\* 128-byte block at offset 0.
C13_FirstAtOffsetZero ==
    [][(lastOp.op = "new" /\ AllocateSucceeds) =>
         /\ lastOp'.ret = 0
         /\ lastOp'.arg = 100 =>
               getAllocatedSize(allocatedBlocks', lastOp'.ret) = 128]_vars

\* C14: while at least one allocation is live, an allocate whose rounded
\* block size equals totalSize returns null; on the 1024/64 manager
\* allocate(900) fails while the block of allocate(100) is live.
C14_WholeArenaBusy ==
    [][(/\ lastOp'.op = "allocate"
        /\ Handles # {}
        /\ lastOp'.arg # 0
        /\ allocBlockSize(lastOp'.arg, minBlockSize) = totalSize)
       => lastOp'.ret = NullPtr]_vars

C14_Witness ==
    /\ totalSize = 1024
    /\ lastOp = Op("allocate", 900, NullPtr)
    /\ nAlloc = 1
    /\ \E h \in Handles : Handles = {h} /\ allocatedBlocks[h] = 128

\* the 1024/64 manager with exactly two live allocations, both of 128
\* bytes and not adjacent, and 768 bytes on the free lists
TwoApart ==
    /\ totalSize = 1024
    /\ minBlockSize = 64
    /\ Cardinality(Handles) = 2
    /\ \A h \in Handles : allocatedBlocks[h] = 128
    /\ \A p, q \in Handles : p + 128 # q
    /\ SumFree(Classes) = 768

Capacity == lastOp.arg

MinArg == lastOp.ret

\* the smallest power of two that is at least n
IsSmallestPowerOfTwoGeq(p, n) ==
    /\ IsPowerOfTwo(p)
    /\ p >= n
    /\ \A q \in 1..(p - 1) : IsPowerOfTwo(q) => q < n

\* C16: constructing a manager fails when the capacity is 0, when the
\* minimum block size is 0 or when the rounded minimum exceeds the rounded
\* capacity; no manager whose root block is smaller than minBlockSize is
\* produced.
C16_ConstructorRejects ==
    /\ (lastOp.op = "new" /\ (Capacity = 0 \/ MinArg = 0)) => ~running
    /\ running => totalSize >= minBlockSize

\* C17: after construction with 0 < minimum <= capacity, totalSize and
\* minBlockSize are the smallest powers of two at or above the arguments,
\* there are log2(totalSize / minBlockSize) + 1 classes, the top class
\* holds the one free block {0, totalSize}, every other class is empty and
\* the registry is empty.
C17_ConstructionPost ==
    (lastOp.op = "new" /\ 0 < MinArg /\ MinArg <= Capacity) =>
        /\ IsSmallestPowerOfTwoGeq(totalSize, Capacity)
        /\ IsSmallestPowerOfTwoGeq(minBlockSize, MinArg)
        /\ \E e \in 0..WordBits :
              /\ minBlockSize * Pow2(e) = totalSize
              /\ Classes = 0..e
              /\ Len(freeLists[e]) = 1
              /\ freeLists[e][1].offset = 0
              /\ freeLists[e][1].size = totalSize
              /\ freeLists[e][1].free
              /\ \A c \in 0..(e - 1) : freeLists[c] = <<>>
        /\ Handles = {}

C17_Witness ==
    /\ lastOp = Op("new", 100, 50)
    /\ totalSize = 128
    /\ minBlockSize = 64
    /\ Len(freeLists[1]) = 1

\* C18: every allocate(size) call, for every size in 0 .. 2^w - 1, returns
\* (a handle or null), and the manager goes on running after it.
C18_AllocateTerminates ==
    [][lastOp'.op = "allocate" =>
         /\ lastOp'.ret # Diverges
         /\ running']_vars

\* the free lists as sets of <<offset, size>> per class
BlockSets(fl) ==
    [c \in DOMAIN fl |->
        {<<fl[c][i].offset, fl[c][i].size>> : i \in 1..Len(fl[c])}]

\* deallocate(p) followed by deallocate(q) from the current state
ReleaseInOrder(p, q) ==
    LET first == deallocate(freeLists, allocatedBlocks, p, minBlockSize)
    IN deallocate(first.fl, first.reg, q, minBlockSize)

C20_PureQueries ==
    [][lastOp'.op \in {"isManaged", "getAllocatedSize"} =>
         /\ freeLists' = freeLists
         /\ allocatedBlocks' = allocatedBlocks
         /\ running'
         /\ lastOp'.op = "isManaged" =>
               lastOp'.ret = BoolRet(lastOp'.arg \in live)
         /\ lastOp'.op = "getAllocatedSize" =>
               /\ lastOp'.arg \in live =>
                     lastOp'.ret = allocatedBlocks[lastOp'.arg] /\ lastOp'.ret > 0
               /\ lastOp'.arg \notin live => lastOp'.ret = 0]_vars

C20_Witness ==
    /\ lastOp.op = "getAllocatedSize"
    /\ lastOp.arg \in live
    /\ lastOp.ret = 128
    /\ \E h \in live : h # lastOp.arg

\* C21: in an image transformation, when the manager's allocate returns
\* null the destination comes from the heap and nothing is stored through
\* a null destination; without a manager the destination comes from the
\* heap.
C21_NullFallsBack ==
    [][lastOp'.op = "rotateImage" =>
         /\ ~image'.nullStore
         /\ lastOp'.ret = NullPtr => image'.source = "heap"
         /\ ~buddyManager => image'.source = "heap"]_vars

\* the class of a request and what allocate finds for it in the current
\* state: the free lists after findBlock, the slot idx of the matched
\* block in its list and the position j of the entry that is erased
RequestClass(size) == getSizeClass(allocBlockSize(size, minBlockSize), minBlockSize)

Matched(size) ==
    LET k == RequestClass(size)
        r == findBlock(freeLists, k)
    IN [fl    |-> r.fl,
        cls   |-> k,
        idx   |-> r.idx,
        block |-> r.fl[k][r.idx],
        j     |-> FirstWithOffset(r.fl[k], r.fl[k][r.idx].offset)]

\* C22: a successful allocate returns the offset of the block it removed
\* from the free list and records that block's size, and the returned
\* block is on no free list when the call returns.
C22_ReturnsRemovedBlock ==
    [][AllocateSucceeds =>
         LET m == Matched(lastOp'.arg) IN
            /\ lastOp'.ret = m.fl[m.cls][m.j].offset
            /\ allocatedBlocks'[lastOp'.ret] = m.fl[m.cls][m.j].size
            /\ \A c \in DOMAIN freeLists' :
                  \A i \in 1..Len(freeLists'[c]) :
                     freeLists'[c][i].offset # lastOp'.ret]_vars

\* C23: allocate reads the offset and the size of the matched block only
\* while the entry is an element of its free list: the erase it performs
\* does not invalidate the pointer that findBlock returned.
C23_NoReadAfterErase ==
    [][AllocateSucceeds =>
         LET m == Matched(lastOp'.arg) IN ~Invalidated(m.idx, m.j)]_vars

\* offset is a multiple of size and the block ends inside the arena
AlignedInArena(offset, size) ==
    /\ size > 0
    /\ offset % size = 0
    /\ offset + size <= totalSize

\* C24: in every reachable state every free block and every allocated
\* block has an offset that is a multiple of its size, and
\* offset + size <= totalSize.
C24_Alignment ==
    /\ \A ci \in FreeEntries :
          AlignedInArena(FreeBlockAt(ci).offset, FreeBlockAt(ci).size)
    /\ \A h \in Handles : AlignedInArena(h, allocatedBlocks[h])

C24_Witness ==
    /\ \E ci \in FreeEntries :
          /\ FreeBlockAt(ci).offset > 0
          /\ FreeBlockAt(ci).size = 2 * minBlockSize
          /\ \E cj \in FreeEntries : FreeBlockAt(cj).size = minBlockSize
    /\ \E h \in Handles : h > 0
    /\ lastOp.op = "deallocate"

\* C25: in every reachable state every block of freeLists[k] has size
\* minBlockSize << k, and every size recorded in the registry is
\* minBlockSize * 2^k for some k with 0 <= k < numClasses.
C25_ClassSizes ==
    /\ \A ci \in FreeEntries :
          FreeBlockAt(ci).size = minBlockSize * Pow2(ci[1])
    /\ \A h \in Handles :
          \E k \in Classes : allocatedBlocks[h] = minBlockSize * Pow2(k)

\* an allocate call whose size maps to a class of the manager
Classed(size) ==
    /\ size # 0
    /\ allocBlockSize(size, minBlockSize) # Diverges
    /\ RequestClass(size) < NumClasses(freeLists)

\* C26: when the free list of the requested class k is not empty,
\* allocate removes its first entry, splits nothing and leaves the free
\* list of every other class as it was.
C26_TakesFirstEntry ==
    [][(/\ lastOp'.op = "allocate"
        /\ Classed(lastOp'.arg)
        /\ freeLists[RequestClass(lastOp'.arg)] # <<>>)
       =>
       LET k == RequestClass(lastOp'.arg) IN
          /\ lastOp'.ret # NullPtr
          /\ freeLists' = [freeLists EXCEPT ![k] = Tail(freeLists[k])]]_vars

C26_Witness ==
    /\ AllocSucceeded
    /\ Classed(lastOp.arg)
    /\ RequestClass(lastOp.arg) = 0
    /\ Len(freeLists[0]) = 1
    /\ freeLists[0][1].offset = 0
    /\ \E c \in Classes : c > 0 /\ freeLists[c] # <<>>

\* the classes above k that hold a free block
ClassesAbove(k) == {c \in Classes : c > k /\ freeLists[c] # <<>>}

\* C27: when class k is empty and m is the lowest class above k with a
\* free block, a successful allocate removes the first block {o, s_m} of
\* class m, each class c in k+1 .. m-1 gains the one block {o + s_c, s_c}
\* (the upper half at that level), class k gains the one block that is
\* the buddy (offset XOR size) of the returned block, and no other class
\* changes.
C27_SplitCascade ==
    [][(/\ lastOp'.op = "allocate"
        /\ Classed(lastOp'.arg)
        /\ freeLists[RequestClass(lastOp'.arg)] = <<>>
        /\ ClassesAbove(RequestClass(lastOp'.arg)) # {}
        /\ lastOp'.ret # NullPtr)
       =>
       LET k == RequestClass(lastOp'.arg)
           m == CHOOSE c \in ClassesAbove(k) : \A d \in ClassesAbove(k) : c <= d
           o == freeLists[m][1].offset
           s == minBlockSize * Pow2(k)
       IN /\ freeLists'[m] = Tail(freeLists[m])
          /\ \A c \in (k + 1)..(m - 1) :
                freeLists'[c] =
                   <<Block(o + minBlockSize * Pow2(c), minBlockSize * Pow2(c), TRUE)>>
          /\ freeLists'[k] = <<Block(BitXor(lastOp'.ret, s), s, TRUE)>>
          /\ \A c \in Classes : (c < k \/ c > m) => freeLists'[c] = freeLists[c]]_vars

\* the free lists after deallocate(h) has appended the block of h, before
\* the coalescing loop
Pushed(h) ==
    LET c == getSizeClass(allocatedBlocks[h], minBlockSize) IN
    IF c >= NumClasses(freeLists) THEN freeLists
    ELSE [freeLists EXCEPT ![c] = Append(@, Block(h, allocatedBlocks[h], TRUE))]

\* the free lists on which the loop while (mergeBuddies()) calls
\* mergeBuddies, starting from fl
RECURSIVE Passes(_)
Passes(fl) ==
    LET r == mergeBuddies(fl, minBlockSize) IN
    {fl} \cup (IF r.merged THEN Passes(r.fl) ELSE {})

\* every free-list state on which a deallocate of a live handle of the
\* current state calls mergeBuddies
MergeInputs == UNION {Passes(Pushed(h)) : h \in Handles}

\* after is before with the buddies at positions j < l of class k
\* replaced by their union at the tail of class k + 1
MergedAt(before, after, k, j, l) ==
    LET s == minBlockSize * Pow2(k) IN
    /\ AreBuddies(before[k][j], before[k][l], s)
    /\ after = [before EXCEPT
                  ![k] = EraseAt(EraseAt(before[k], l), j),
                  ![k + 1] = Append(before[k + 1],
                                Block(Min(before[k][j].offset, before[k][l].offset),
                                      2 * s, TRUE))]

\* C28: every merge of mergeBuddies removes two blocks of one class k
\* below the top class whose offsets are o and o XOR s, the lower one a
\* multiple of 2s, and appends the one block {lower offset, 2s} to class
\* k + 1; nothing else changes, and the registry after deallocate(h) is
\* the registry without h.
C28_MergesBuddiesOnly ==
    /\ \A fl \in MergeInputs :
          LET r == mergeBuddies(fl, minBlockSize) IN
          r.merged =>
             \E k \in 0..(NumClasses(fl) - 2) :
                \E j, l \in 1..Len(fl[k]) : j < l /\ MergedAt(fl, r.fl, k, j, l)
    /\ \A h \in Handles :
          deallocate(freeLists, allocatedBlocks, h, minBlockSize).reg
             = MapErase(allocatedBlocks, h)

\* a deallocate on the 256-byte arena has merged up to the root
C28_Witness ==
    /\ lastOp.op = "deallocate"
    /\ totalSize = 256
    /\ \E ci \in FreeEntries : FreeBlockAt(ci).size = 256
    /\ nAlloc >= 2

\* the pairs j < l of class k of fl that are buddies
BuddyPairs(fl, k) ==
    {jl \in (1..Len(fl[k])) \X (1..Len(fl[k])) :
        /\ jl[1] < jl[2]
        /\ AreBuddies(fl[k][jl[1]], fl[k][jl[2]], minBlockSize * Pow2(k))}

\* the classes below the top one that hold a buddy pair
BuddyClasses(fl) == {k \in 0..(NumClasses(fl) - 2) : BuddyPairs(fl, k) # {}}

RECURSIVE NumFreeBlocks(_, _)
NumFreeBlocks(fl, cs) ==
    IF cs = {} THEN 0
    ELSE LET c == CHOOSE x \in cs : TRUE
         IN Len(fl[c]) + NumFreeBlocks(fl, cs \ {c})

\* C30: every deallocate returns: each merge of its loop leaves one
\* free-list entry fewer, so the loop makes at most numFreeBlocks - 1
\* merges.
C30_CoalescingTerminates ==
    /\ \A fl \in MergeInputs :
          LET r == mergeBuddies(fl, minBlockSize) IN
          r.merged =>
             NumFreeBlocks(r.fl, DOMAIN r.fl) = NumFreeBlocks(fl, DOMAIN fl) - 1
    /\ \A h \in Handles :
          Cardinality(Passes(Pushed(h))) - 1
             <= NumFreeBlocks(Pushed(h), DOMAIN freeLists) - 1
    /\ lastOp.op = "deallocate" => running

\* a deallocate has returned after two merges: the last handle of the
\* 256-byte arena is released and the root block is back
C30_Witness ==
    /\ lastOp.op = "deallocate"
    /\ running
    /\ freed = [ptr |-> lastOp.arg, calls |-> 1]
    /\ Handles = {}
    /\ totalSize = 256
    /\ NumFreeBlocks(freeLists, Classes) = 1
    /\ Len(freeLists[2]) = 1

\* C31: for every request size above totalSize, up to 2^w - 1, allocate
\* returns null; size + minBlockSize - 1 does not wrap into a small value
\* that a block smaller than the request then serves.
C31_NoWrapAround ==
    [][(lastOp'.op = "allocate" /\ lastOp'.arg > totalSize) =>
         lastOp'.ret = NullPtr]_vars

\* no class of the current free lists holds two blocks that are buddies
NoBuddiesFree ==
    \A c \in Classes : \A i, j \in 1..Len(freeLists[c]) :
        i # j => ~AreBuddies(freeLists[c][i], freeLists[c][j],
                             minBlockSize * Pow2(c))

\* C32: in a state in which no two free blocks are buddies, a successful
\* allocate(s) followed at once by deallocate of the returned handle
\* leaves the registry, and the blocks of every free list, as they were
\* before the allocate.
C32_RoundTrip ==
    NoBuddiesFree =>
       \A size \in ReqSizes :
          \A a \in allocate(freeLists, allocatedBlocks, size, minBlockSize) :
             a.ret \notin {NullPtr, Diverges} =>
                LET d == deallocate(a.fl, a.reg, a.ret, minBlockSize) IN
                   /\ BlockSets(d.fl) = BlockSets(freeLists)
                   /\ d.reg = allocatedBlocks

\* C33: for every live handle h, deallocate(h) takes exactly the entry h
\* out of the registry and leaves every other entry as it was; the class of
\* the recorded size is below the number of classes, and the free lists it
\* leaves are the result of coalescing the lists in which the block
\* {h, recorded size} was appended at the tail of that class.
C33_DeallocateEffect ==
    \A h \in Handles :
       LET size == allocatedBlocks[h]
           c    == getSizeClass(size, minBlockSize)
           d    == deallocate(freeLists, allocatedBlocks, h, minBlockSize)
       IN /\ c < NumClasses(freeLists)
          /\ ~d.crash
          /\ DOMAIN d.reg = Handles \ {h}
          /\ \A g \in DOMAIN d.reg : d.reg[g] = allocatedBlocks[g]
          /\ d.fl = Coalesce([freeLists EXCEPT ![c] =
                                 freeLists[c] \o
                                   <<[offset |-> h, size |-> size, free |-> TRUE]>>],
                             minBlockSize)

\* the process has ended: main returned, or the process was killed
ProgramEnded == program.pc \in {"exited", "crashed"}

\* C34: in the main and benchmark programs at most one manager object is
\* live at any time; when the process ends every manager that was created
\* has been deleted and the global pointer is null; and no Image has
\* called isManaged or deallocate on a deleted manager.
C34_OneManagerDeleted ==
    /\ program.managers <= 1
    /\ ProgramEnded => program.managers = 0 /\ ~buddyManager
    /\ ~program.stale

\* C35: a destination buffer that transformImage obtained from the manager
\* has been passed to deallocate exactly once when the call is over, the
\* destructor of the temporary Image included, and was never handed to
\* stbi_image_free.
C35_DeallocatedOnce ==
    (lastOp.op = "transformImage" /\ image.source = "buddy") =>
        program.deallocs = 1 /\ program.frees = 0

\* a transformImage whose buffer came from the manager has returned
C35_Witness ==
    /\ lastOp.op = "transformImage"
    /\ image.source = "buddy"
    /\ lastOp.ret \notin Handles
    /\ program.pc \in {"delete", "reset", "cleanup"}
    /\ program.deallocs = 1

(* ------------------------- the helper functions ------------------------ *)

\* every value of size_t
Words == 0..(WordMod - 1)

\* The helpers read no field but minBlockSize, which no operation changes:
\* they are applied to the manager as the constructor left it.
Constructed == running /\ lastOp.op = "new"

\* log2Ceil(n) applied to a word
Log2Ceil ==
    /\ Constructed
    /\ \E n \in Words : lastOp' = Op("log2Ceil", n, log2Ceil(n))
    /\ UNCHANGED <<totalSize, minBlockSize, freeLists, allocatedBlocks,
                   running, freed, live, nAlloc, buddyManager, image, program>>

\* roundUpToNextPowerOf2(n) applied to a word
RoundUpToNextPowerOf2 ==
    /\ Constructed
    /\ \E n \in Words :
         lastOp' = Op("roundUpToNextPowerOf2", n, roundUpToNextPowerOf2(n))
    /\ UNCHANGED <<totalSize, minBlockSize, freeLists, allocatedBlocks,
                   running, freed, live, nAlloc, buddyManager, image, program>>

\* getSizeClass applied to the block size minBlockSize << k of class k
GetSizeClass ==
    /\ Constructed
    /\ \E k \in DOMAIN freeLists :
         lastOp' = Op("getSizeClass", k,
                      getSizeClass(Wrap(minBlockSize * Pow2(k)), minBlockSize))
    /\ UNCHANGED <<totalSize, minBlockSize, freeLists, allocatedBlocks,
                   running, freed, live, nAlloc, buddyManager, image, program>>

\* the head of allocate(s) for s > 0: roundedSize, blockSize and sizeClass
SizeClassOfRequest ==
    /\ Constructed
    /\ \E size \in Words \ {0} :
         lastOp' = Op("sizeClass", size,
                      IF allocBlockSize(size, minBlockSize) = Diverges
                      THEN Diverges ELSE RequestClass(size))
    /\ UNCHANGED <<totalSize, minBlockSize, freeLists, allocatedBlocks,
                   running, freed, live, nAlloc, buddyManager, image, program>>

NextHelpers ==
    \/ Log2Ceil
    \/ RoundUpToNextPowerOf2
    \/ GetSizeClass
    \/ SizeClassOfRequest

SpecHelpers == Init /\ [][NextHelpers]_vars

\* e is the smallest exponent with 2^e >= n
IsCeilLog2(e, n) ==
    /\ e \in 0..WordBits
    /\ Pow2(e) >= n
    /\ \A d \in 0..(e - 1) : Pow2(d) < n

\* k is the least class with (minBlockSize << k) >= s
IsLeastClassFor(k, s) ==
    /\ k \in 0..(WordBits - 1)
    /\ Wrap(minBlockSize * Pow2(k)) >= s
    /\ \A j \in 0..(k - 1) : Wrap(minBlockSize * Pow2(j)) < s

\* the helper results for the arguments 1 <= n <= 2^(w-1) and for the
\* block size of each class
HelpersCorrect ==
    /\ (lastOp.op = "log2Ceil" /\ lastOp.arg \in 1..Pow2(WordBits - 1)) =>
          IsCeilLog2(lastOp.ret, lastOp.arg)
    /\ (lastOp.op = "roundUpToNextPowerOf2"
          /\ lastOp.arg \in 1..Pow2(WordBits - 1)) =>
          /\ lastOp.ret = Pow2(log2Ceil(lastOp.arg))
          /\ IsSmallestPowerOfTwoGeq(lastOp.ret, lastOp.arg)
    /\ lastOp.op = "getSizeClass" => lastOp.ret = lastOp.arg

\* C36: for 1 <= n <= 2^(w-1), log2Ceil(n) is the smallest e with
\* 2^e >= n and roundUpToNextPowerOf2(n) is 2^log2Ceil(n), the smallest
\* power of two >= n; getSizeClass(minBlockSize << k) is k for every class
\* k; and the class allocate computes for a request s is the least k with
\* (minBlockSize << k) >= s.
C36_HelperFunctions ==
    /\ HelpersCorrect
    /\ lastOp.op = "sizeClass" => IsLeastClassFor(lastOp.ret, lastOp.arg)

====
